---------------------------- MODULE Spec2Model ----------------------------
(***************************************************************************)
(* Watara Supervision emulator: the register bus (Rd6502 / Wr6502), the    *)
(* IRQ timer (Loop6502) of src/src/main.cpp and the sound engine of        *)
(* src/src/sound.h, as a state machine.                                    *)
(***************************************************************************)
EXTENDS Integers, Sequences, FiniteSets, TLC

(***************************************************************************)
(* Program constants                                                       *)
(***************************************************************************)
UNSCALED_CLOCK == 4000000
SAMPLE_RATE == 44100
VRAM_SIZE == 8192
RAM_SIZE == 8192
ROM_SIZE == 128 * 1024

ROM_BANK_SIZE == 16384
INT_PERIOD == 256

U8 == 2 ^ 8
U16 == 2 ^ 16

(***************************************************************************)
(* Bounds of the model: how many IRQ signals the observer counts.          *)
(***************************************************************************)
MaxIrqCount == 3

(***************************************************************************)
(* Bit helpers: C's & and >> on unsigned values, by arithmetic.            *)
(***************************************************************************)
Pow2(k) == 2 ^ k
Bit(v, k) == (v \div Pow2(k)) % 2

(***************************************************************************)
(* Sparse byte memories: a finite map of the cells that differ from the    *)
(* buffer's initial content.                                               *)
(***************************************************************************)
EmptyMem == [o \in {} |-> 0]
Load(mem, off, dflt) == IF off \in DOMAIN mem THEN mem[off] ELSE dflt
Store(mem, off, v, dflt) ==
    IF v = dflt
    THEN [o \in (DOMAIN mem) \ {off} |-> mem[o]]
    ELSE [o \in (DOMAIN mem) \cup {off} |-> IF o = off THEN v ELSE mem[o]]

VARIABLES
    RAM,               \* main.cpp:14, cells that differ from the memset 0
    VRAM,              \* main.cpp:13, cells that differ from the memset 0
    ROM,               \* main.cpp:15, cells that differ from the loaded image
    rom_size,          \* main.cpp:31
    key_status,        \* main.cpp:29, the set of host keys held down
    irq_timer_counter, \* main.cpp:33
    irq_enabled,       \* main.cpp:34
    nmi_enabled,       \* main.cpp:35
    timer_prescaler,   \* main.cpp:36
    bank,              \* main.cpp:37
    lcd_registers,     \* main.cpp:39
    timer,             \* main.cpp:301, the static accumulator of Loop6502
    channels,          \* sound.h:76
    noise_channel,     \* sound.h:77
    dma_channel,       \* sound.h:78
    wr,                \* the register write in progress in the execution domain
    op,                \* the operation that produced this state
    ret,               \* what that operation returned (byte read, sample, interrupt)
    irq_count,         \* IRQ signals given to the CPU since the last write of 0x2023
    dma_run,           \* observer of the DMA playback since the last fresh trigger
    pulse_run          \* observer of each pulse channel's length countdown since its last write

busvars == <<RAM, VRAM, ROM, rom_size, key_status, irq_timer_counter, irq_enabled,
             nmi_enabled, timer_prescaler, bank, lcd_registers, timer>>
memvars == <<RAM, VRAM, ROM, rom_size, lcd_registers>>
timervars == <<irq_timer_counter, irq_enabled, nmi_enabled, timer_prescaler, bank, timer>>
soundvars == <<channels, noise_channel, dma_channel>>
vars == <<RAM, VRAM, ROM, rom_size, key_status, irq_timer_counter, irq_enabled,
          nmi_enabled, timer_prescaler, bank, lcd_registers, timer,
          channels, noise_channel, dma_channel, wr, op, ret, irq_count, dma_run,
          pulse_run>>


(***************************************************************************)
(* Inputs.  The cartridge image is an input of the program: RomImage is    *)
(* the byte the image holds at an offset, rom_size its length; the bytes   *)
(* of the ROM buffer beyond the image are the zeros of static storage.     *)
(***************************************************************************)
RomSizes == {32768, 65536}
RomImage(off) == (off * 7 + 3) % U8
OobBytes == {0, 90, 255}
Layouts == {"elsewhere", "contiguous"}

VK_RETURN == \h0D
VK_SPACE == \h20
VK_LEFT == \h25
VK_UP == \h26
VK_RIGHT == \h27
VK_DOWN == \h28
VK_X == 88
VK_Z == 90

NoRet == [byte |-> 0, int |-> "INT_NONE", sample |-> 0]
NoWrite == [pc |-> "idle", ch |-> 0, reg |-> 0, value |-> 0]
NoRun == [clean |-> FALSE, ticks |-> 0, emitted |-> 0]
NoPulseRun == [clean |-> FALSE, ticks |-> 0, length |-> 0, size |-> 0]
Op(name, a, b, c) == [name |-> name, addr |-> a, reg |-> b, value |-> c]

(***************************************************************************)
(* Rd6502: the byte a bus read returns.  ob is the byte found by an access *)
(* outside a buffer (undefined behaviour: any byte).                       *)
(***************************************************************************)
Buttons(keys) ==
    LET t(k, b) == IF k \in keys THEN Pow2(b) ELSE 0
        \* each pressed key XORs its bit out of 0xFF; Return and Space
        \* both XOR bit 7
        b7 == IF (VK_RETURN \in keys) = (VK_SPACE \in keys) THEN 0 ELSE 128
    IN  255 - t(VK_RIGHT, 0) - t(VK_LEFT, 1) - t(VK_DOWN, 2) - t(VK_UP, 3)
            - t(VK_X, 4) - t(VK_Z, 5) - b7

\* faulty variant: the mirror of the LCD registers decoded on one address bit
LcdIndex_OneBit(address) == address % 2

\* address & 3: the LCD register an address of 0x2000-0x2007 selects
LcdIndex(address) == address % 4

RomAt(idx, ob) ==
    IF idx >= 0 /\ idx < ROM_SIZE THEN Load(ROM, idx, IF idx < rom_size THEN RomImage(idx) ELSE 0)
    ELSE ob

VramAt(idx, ob) ==
    IF idx >= 0 /\ idx < VRAM_SIZE THEN Load(VRAM, idx, 0) ELSE ob

HiRomIndex(address) == rom_size - ROM_BANK_SIZE + (address - \hC000)
LoRomIndex(address) == bank + (address - \h8000)

RdByte(address, ob) ==
    IF address <= \h1FFF THEN Load(RAM, address, 0)
    ELSE IF address = \h2023 THEN irq_timer_counter
    ELSE IF address = \h2024 THEN 1
    ELSE IF address = \h2025 THEN 0
    ELSE IF address = \h2027 THEN 3
    ELSE IF address >= \h2000 /\ address <= \h2007 THEN lcd_registers[LcdIndex(address)]
    ELSE IF address = \h2020 THEN Buttons(key_status)
    ELSE IF address >= \hC000 THEN RomAt(HiRomIndex(address), ob)
    ELSE IF address >= \h8000 /\ address <= \hBFFF THEN RomAt(LoRomIndex(address), ob)
    ELSE IF address >= \h4000 THEN VramAt(address - \h4000, ob)
    ELSE 255

\* faulty variant: the read of the DMA status register 0x2025 clears the flag too
RdIrqEnabled_DmaStatus(address) ==
    IF address = \h2024 \/ address = \h2025 \/ address = \h2027 THEN FALSE ELSE irq_enabled

\* irq_enabled after a bus read of address
RdIrqEnabled(address) ==
    IF address = \h2024 \/ address = \h2027 THEN FALSE ELSE irq_enabled

Rd6502(address, ob) ==
    /\ irq_enabled' = RdIrqEnabled(address)
    /\ ret' = [NoRet EXCEPT !.byte = RdByte(address, ob)]
    /\ op' = Op("Rd6502", address, 0, 0)
    /\ UNCHANGED <<RAM, VRAM, ROM, rom_size, key_status, irq_timer_counter,
                   nmi_enabled, timer_prescaler, bank, lcd_registers, timer,
                   soundvars, wr, irq_count, dma_run, pulse_run>>

(***************************************************************************)
(* Wr6502.  A store through VRAM[address - 0x4000] beyond the 8192 bytes   *)
(* of VRAM is undefined behaviour: with the three buffers laid out in      *)
(* declaration order (VRAM, RAM, ROM) it lands in RAM or ROM, with another *)
(* layout it lands outside the modelled state.                             *)
(***************************************************************************)
\* faulty variant: the IRQ of a zero written to 0x2023 is left to the next timer tick
WrTimerIrq_Deferred(value, enabled) == FALSE

\* does a write of value to 0x2023 raise IRQ inside the write
WrTimerIrq(value, enabled) == value = 0 /\ enabled

\* timer_prescaler selected by a write of value to 0x2026: 1 == (value & 5)
WrPrescaler(value) ==
    IF Bit(value, 0) = 1 /\ Bit(value, 2) = 0 THEN 16384 ELSE 256

\* bank is a uint16_t
WrBank(value) == ((value \div 32) * ROM_BANK_SIZE) % U16

WrVram(address, value, lay) ==
    LET idx == address - \h4000 IN
    IF idx < VRAM_SIZE
    THEN /\ VRAM' = Store(VRAM, idx, value, 0)
         /\ UNCHANGED <<RAM, ROM>>
    ELSE IF lay = "contiguous" /\ idx < VRAM_SIZE + RAM_SIZE
    THEN /\ RAM' = Store(RAM, idx - VRAM_SIZE, value, 0)
         /\ UNCHANGED <<VRAM, ROM>>
    ELSE IF lay = "contiguous"
    THEN LET r == idx - VRAM_SIZE - RAM_SIZE IN
         /\ ROM' = Store(ROM, r, value, IF r < rom_size THEN RomImage(r) ELSE 0)
         /\ UNCHANGED <<VRAM, RAM>>
    ELSE UNCHANGED <<VRAM, RAM, ROM>>

Wr6502(address, value, lay) ==
    /\ op' = Op("Wr6502", address, 0, value)
    /\ UNCHANGED <<rom_size, key_status, timer, soundvars, wr, dma_run, pulse_run>>
    /\ IF address <= \h1FFF
       THEN /\ RAM' = Store(RAM, address, value, 0)
            /\ ret' = NoRet
            /\ UNCHANGED <<VRAM, ROM, lcd_registers, timervars, irq_count>>
       ELSE IF address >= \h2000 /\ address <= \h2007
       THEN /\ lcd_registers' = [lcd_registers EXCEPT ![LcdIndex(address)] = value]
            /\ ret' = NoRet
            /\ UNCHANGED <<RAM, VRAM, ROM, timervars, irq_count>>
       ELSE IF \/ address >= \h2008 /\ address <= \h200D
               \/ address >= \h2021 /\ address <= \h2022
               \/ address >= \h2010 /\ address <= \h201C
               \/ address >= \h2028 /\ address <= \h202F
       THEN /\ ret' = NoRet
            /\ UNCHANGED <<RAM, VRAM, ROM, lcd_registers, timervars, irq_count>>
       ELSE IF address = \h2023
       THEN /\ irq_timer_counter' = value
            /\ ret' = [NoRet EXCEPT !.int = IF WrTimerIrq(value, irq_enabled)
                                            THEN "INT_IRQ" ELSE "INT_NONE"]
            /\ irq_count' = IF WrTimerIrq(value, irq_enabled) THEN 1 ELSE 0
            /\ timer_prescaler' = 256
            /\ UNCHANGED <<RAM, VRAM, ROM, lcd_registers, irq_enabled, nmi_enabled, bank>>
       ELSE IF address = \h2026
       THEN /\ bank' = WrBank(value)
            /\ nmi_enabled' = (Bit(value, 0) = 1)
            /\ irq_enabled' = (Bit(value, 1) = 1)
            /\ timer_prescaler' = WrPrescaler(value)
            /\ ret' = NoRet
            /\ UNCHANGED <<RAM, VRAM, ROM, lcd_registers, irq_timer_counter, irq_count>>
       ELSE IF address >= \h4000
       THEN /\ WrVram(address, value, lay)
            /\ ret' = NoRet
            /\ UNCHANGED <<lcd_registers, timervars, irq_count>>
       ELSE /\ ret' = NoRet
            /\ UNCHANGED <<RAM, VRAM, ROM, lcd_registers, timervars, irq_count>>

(***************************************************************************)
(* Loop6502: the per-instruction-block callback (cpu.IPeriod = 256).  A    *)
(* returned INT_IRQ is handed to Int6502 by Run6502.                       *)
(***************************************************************************)
LoopExpired == irq_enabled /\ irq_timer_counter = 0

\* irq_timer_counter-- on a uint8_t
CounterDec(c) == (c + U8 - 1) % U8

Saturate(n) == IF n < MaxIrqCount THEN n + 1 ELSE MaxIrqCount

Loop6502 ==
    /\ op' = Op("Loop6502", 0, 0, 0)
    /\ UNCHANGED <<RAM, VRAM, ROM, rom_size, key_status, nmi_enabled, timer_prescaler,
                   bank, lcd_registers, soundvars, wr, dma_run, pulse_run>>
    /\ IF LoopExpired
       THEN /\ irq_enabled' = FALSE
            /\ ret' = [NoRet EXCEPT !.int = "INT_IRQ"]
            /\ irq_count' = Saturate(irq_count)
            /\ UNCHANGED <<irq_timer_counter, timer>>
       ELSE /\ ret' = [NoRet EXCEPT !.int = "INT_QUIT"]
            /\ UNCHANGED <<irq_enabled, irq_count>>
            /\ IF timer_prescaler = 256
               THEN /\ irq_timer_counter' = CounterDec(irq_timer_counter)
                    /\ UNCHANGED timer
               ELSE IF timer + INT_PERIOD = timer_prescaler
               THEN /\ irq_timer_counter' = CounterDec(irq_timer_counter)
                    /\ timer' = 0
               ELSE /\ timer' = timer + INT_PERIOD
                    /\ UNCHANGED irq_timer_counter

\* the host changes which keys are held down (MiniFB's key status array)
HostKeys(keys) ==
    /\ key_status' = keys
    /\ op' = Op("HostKeys", 0, 0, 0)
    /\ ret' = NoRet
    /\ UNCHANGED <<RAM, VRAM, ROM, rom_size, irq_timer_counter, irq_enabled,
                   nmi_enabled, timer_prescaler, bank, lcd_registers, timer,
                   soundvars, wr, irq_count, dma_run, pulse_run>>


(***************************************************************************)
(* Sound engine (sound.h): channel state and register write handlers.      *)
(***************************************************************************)
InitChannel ==
    [reg |-> [i \in 0..3 |-> 0], duty |-> 0, volume |-> 0, length |-> 0,
     enabled |-> FALSE, position |-> 0, size |-> 0]

InitNoise ==
    [reg |-> [i \in 0..2 |-> 0], volume |-> 0, frequency |-> 0, length |-> 0,
     noise_enable |-> FALSE, left_output |-> FALSE, right_output |-> FALSE,
     continuous_mode |-> FALSE, lfsr_mode |-> FALSE,
     divisor |-> 8, position |-> 0, lfsr |-> \h7FFF]

InitDma ==
    [reg |-> [i \in 0..4 |-> 0], address |-> 0, length |-> 0, rom_bank |-> 0,
     left_output |-> FALSE, right_output |-> FALSE, frequency |-> 0,
     triggered |-> FALSE, current_address |-> 0, current_byte |-> 0,
     high_nibble |-> FALSE, position |-> 0, samples_played |-> 0,
     clock_divisor |-> 0]

\* reg[0] | (reg[1] & 0x07) << 8
PeriodValue(reg) == reg[0] + (reg[1] % 8) * 256

\* (uint32_t)SAMPLE_RATE * x / UNSCALED_CLOCK for 0 <= x <= 131072, in 32-bit
\* unsigned arithmetic.  TLC's integers stop at 2^31 - 1, so the product is not
\* formed: up to x = 97391 it is below 2^32 and the quotient is that of
\* 11025 * x by 1000000 (the same fraction); from x = 97392 on the product has
\* wrapped once, and 44100 * 97392 - 2^32 = 19904.
SampleRateScaled(x) ==
    IF x <= 97391 THEN (11025 * x) \div 1000000
    ELSE (SAMPLE_RATE * (x - 97392) + 19904) \div UNSCALED_CLOCK

\* faulty variant: the period taken as written, without the + 1
PulseSize_NoOffset(period_value) == SampleRateScaled(period_value * 32) % U16

\* (uint16_t)((uint32_t)SAMPLE_RATE * ((period_value + 1) << 5) / UNSCALED_CLOCK)
PulseSize(period_value) == SampleRateScaled((period_value + 1) * 32) % U16

\* the three stores of a period write, in program order
WaveStoreReg(c, reg_index, value) == [c EXCEPT !.reg[reg_index] = value]
WaveStoreSize(c) == [c EXCEPT !.size = PulseSize(PeriodValue(c.reg))]
\* faulty variant: a period write that leaves position where it was
WaveStorePosition_Kept(c) == c

WaveStorePosition(c) == [c EXCEPT !.position = 0]

WaveStoreControl(c, value) ==
    [c EXCEPT !.enabled = (Bit(value, 6) = 1),
              !.duty = (value \div 16) % 4,
              !.volume = value % 16]

WaveStoreLength(c, value) == [c EXCEPT !.length = value + 1]

\* the channel after the whole of sound_wave_write
WaveWritten(c, reg_index, value) ==
    LET s == WaveStoreReg(c, reg_index, value) IN
    IF reg_index \in {0, 1} THEN WaveStorePosition(WaveStoreSize(s))
    ELSE IF reg_index = 2 THEN WaveStoreControl(s, value)
    ELSE WaveStoreLength(s, value)

\* the observer of a channel after a write: a countdown is under observation
\* when the write leaves the channel enabled with a size and a length, at
\* position 0
PulseRunStart(c) ==
    IF c.enabled /\ c.size > 0 /\ c.length > 0 /\ c.position = 0
    THEN [clean |-> TRUE, ticks |-> 0, length |-> c.length, size |-> c.size]
    ELSE NoPulseRun

WaveIndexValid(channel_index, reg_index) ==
    ~(channel_index < 0 \/ channel_index > 1 \/ reg_index < 0 \/ reg_index > 3)

sound_wave_write(channel_index, reg_index, value) ==
    /\ channels' = IF WaveIndexValid(channel_index, reg_index)
                   THEN [channels EXCEPT ![channel_index] = WaveWritten(@, reg_index, value)]
                   ELSE channels
    /\ pulse_run' = IF WaveIndexValid(channel_index, reg_index)
                     THEN [pulse_run EXCEPT ![channel_index] =
                               PulseRunStart(WaveWritten(channels[channel_index],
                                                         reg_index, value))]
                     ELSE pulse_run
    /\ op' = Op("sound_wave_write", channel_index, reg_index, value)
    /\ ret' = NoRet
    /\ UNCHANGED <<busvars, noise_channel, dma_channel, wr, irq_count, dma_run>>

\* static const uint32_t divisors[16]
NoiseDivisors ==
    <<8, 32, 64, 128, 256, 512, 1024, 2048, 4096, 8192, 16384, 32768,
      65536, 131072, 65536, 131072>>

\* noise_channel.divisor is a uint16_t
NoiseDivisor(frequency) == NoiseDivisors[frequency + 1] % U16

\* faulty variant: the control write clears the LFSR like the position counter
NoiseResetLfsr_Zero(value) == 0

\* the LFSR value a write of value to the control register leaves
NoiseResetLfsr(value) == \h7FFF

NoiseWritten(n, reg_index, value) ==
    LET s == [n EXCEPT !.reg[reg_index] = value] IN
    IF reg_index = 0
    THEN [s EXCEPT !.frequency = (value \div 16) % 16,
                   !.volume = value % 16,
                   !.divisor = NoiseDivisor((value \div 16) % 16)]
    ELSE IF reg_index = 1
    THEN [s EXCEPT !.length = value]
    ELSE [s EXCEPT !.noise_enable = (Bit(value, 4) = 1),
                   !.left_output = (Bit(value, 2) = 1),
                   !.right_output = (Bit(value, 1) = 1),
                   !.continuous_mode = (Bit(value, 0) = 1),
                   !.lfsr_mode = (Bit(value, 0) = 1),
                   !.lfsr = NoiseResetLfsr(value),
                   !.position = 0]

NoiseIndexValid(reg_index) == ~(reg_index < 0 \/ reg_index > 2)

sound_noise_write(reg_index, value) ==
    /\ noise_channel' = IF NoiseIndexValid(reg_index)
                        THEN NoiseWritten(noise_channel, reg_index, value)
                        ELSE noise_channel
    /\ op' = Op("sound_noise_write", 0, reg_index, value)
    /\ ret' = NoRet
    /\ UNCHANGED <<busvars, channels, dma_channel, wr, irq_count, dma_run, pulse_run>>

\* static constexpr uint16_t divisors[4]
DmaDivisors == <<256, 512, 1024, 2048>>

DmaFreshTrigger(d, value) == Bit(value, 7) = 1 /\ d.samples_played = 0

\* the DMA channel after sound_dma_write(reg_index, value), reg_index in 0..4;
\* ob is the byte read outside a buffer should the first fetch run off one
DmaWritten(d, reg_index, value, ob) ==
    LET s == [d EXCEPT !.reg[reg_index] = value] IN
    IF reg_index = 0
    THEN [s EXCEPT !.address = (d.address \div 256) * 256 + value]
    ELSE IF reg_index = 1
    THEN [s EXCEPT !.address = (d.address % 256) + value * 256]
    ELSE IF reg_index = 2
    THEN [s EXCEPT !.length = value]
    ELSE IF reg_index = 3
    THEN [s EXCEPT !.rom_bank = (value \div 16) % 8,
                   !.left_output = (Bit(value, 2) = 1),
                   !.right_output = (Bit(value, 1) = 1),
                   !.frequency = value % 4,
                   !.clock_divisor = DmaDivisors[(value % 4) + 1]]
    ELSE IF Bit(value, 7) = 1
    THEN IF d.samples_played = 0
         THEN [s EXCEPT !.triggered = TRUE,
                        !.current_address = d.address,
                        !.samples_played = 0,
                        !.position = 0,
                        !.high_nibble = TRUE,
                        !.current_byte = RdByte(d.address, ob)]
         ELSE [s EXCEPT !.triggered = TRUE]
    ELSE [s EXCEPT !.triggered = FALSE]

\* sound_dma_write has no index check: reg[reg_index] with reg_index outside
\* 0..4 is a store outside the array (undefined behaviour).  With the fields
\* of SV_DMA_CHANNEL laid out in declaration order the byte lands in the
\* padding after reg (5), in address (6, 7: low, high byte), length (8) or
\* rom_bank (9); otherwise it lands outside the modelled state.
DmaStoreOob(d, reg_index, value, lay) ==
    IF lay # "contiguous" THEN d
    ELSE IF reg_index = 6 THEN [d EXCEPT !.address = (d.address \div 256) * 256 + value]
    ELSE IF reg_index = 7 THEN [d EXCEPT !.address = (d.address % 256) + value * 256]
    ELSE IF reg_index = 8 THEN [d EXCEPT !.length = value]
    ELSE IF reg_index = 9 THEN [d EXCEPT !.rom_bank = value]
    ELSE d

DmaIndexValid(reg_index) == reg_index >= 0 /\ reg_index <= 4

sound_dma_write(reg_index, value, ob, lay) ==
    /\ dma_channel' = IF DmaIndexValid(reg_index)
                      THEN DmaWritten(dma_channel, reg_index, value, ob)
                      ELSE DmaStoreOob(dma_channel, reg_index, value, lay)
    /\ irq_enabled' = IF reg_index = 4 /\ DmaFreshTrigger(dma_channel, value)
                      THEN RdIrqEnabled(dma_channel.address)
                      ELSE irq_enabled
    /\ dma_run' = IF reg_index = 4 /\ DmaFreshTrigger(dma_channel, value)
                  THEN [clean |-> TRUE, ticks |-> 0, emitted |-> 0]
                  ELSE NoRun
    /\ op' = Op("sound_dma_write", 0, reg_index, value)
    /\ ret' = NoRet
    /\ UNCHANGED <<RAM, VRAM, ROM, rom_size, key_status, irq_timer_counter,
                   nmi_enabled, timer_prescaler, bank, lcd_registers, timer,
                   channels, noise_channel, wr, irq_count, pulse_run>>


(***************************************************************************)
(* sound_generate_sample: one sample tick.                                 *)
(***************************************************************************)
\* get_duty_threshold
DutyThreshold(c) ==
    IF c.duty = 0 THEN c.size \div 8
    ELSE IF c.duty = 1 THEN c.size \div 4
    ELSE IF c.duty = 2 THEN c.size \div 2
    ELSE IF c.duty = 3 THEN ((c.size * 3) \div 4) % U16
    ELSE c.size \div 2

\* faulty variant: a pulse channel sounds whenever it has a size
PulseActive_AnySize(c) == c.size > 0

PulseActive(c) == c.enabled /\ c.size > 0

\* what the channel adds to left_output and to right_output on this tick
PulseOut(c) ==
    IF PulseActive(c) /\ c.position < DutyThreshold(c) THEN c.volume ELSE 0

\* faulty variant: a wraparound that leaves the length counter alone
PulseWrap_LengthKept(c) == [c EXCEPT !.position = 0]

\* position++ and the wraparound with its length countdown
PulseWrap(c) ==
    IF c.length > 0
    THEN [c EXCEPT !.position = 0, !.length = c.length - 1,
                   !.enabled = IF c.length - 1 = 0 THEN FALSE ELSE c.enabled]
    ELSE [c EXCEPT !.position = 0]

PulseAdvance(c) ==
    IF ~PulseActive(c) THEN c
    ELSE IF (c.position + 1) % U16 >= c.size THEN PulseWrap(c)
    ELSE [c EXCEPT !.position = (c.position + 1) % U16]

\* (uint16_t)((uint32_t)SAMPLE_RATE * divisor / UNSCALED_CLOCK), at least 1
NoisePeriod(divisor) ==
    LET p == SampleRateScaled(divisor) % U16
    IN  IF p = 0 THEN 1 ELSE p

\* x | m for a single-bit mask m = 2^k
OrBit(x, k) == IF Bit(x, k) = 1 THEN x ELSE x + Pow2(k)

\* update_noise_lfsr: the next LFSR value; lfsr_mode TRUE is the 15-bit mode
UpdateNoiseLfsr(lfsr, lfsr_mode) ==
    LET feedback == (lfsr % 2) # ((lfsr \div 2) % 2)
        shifted == lfsr \div 2
        fed == IF ~feedback THEN shifted
               ELSE IF lfsr_mode THEN OrBit(shifted, 14)
               ELSE OrBit(shifted % 128, 6)
    IN  IF fed = 0 THEN (IF lfsr_mode THEN \h7FFF ELSE \h7F) ELSE fed

NoiseShift(n) ==
    LET l == UpdateNoiseLfsr(n.lfsr, n.lfsr_mode) IN
    IF ~n.continuous_mode /\ n.length > 0
    THEN [n EXCEPT !.position = 0, !.lfsr = l, !.length = n.length - 1,
                   !.noise_enable = IF n.length - 1 = 0 THEN FALSE ELSE n.noise_enable]
    ELSE [n EXCEPT !.position = 0, !.lfsr = l]

NoiseAdvance(n) ==
    IF ~n.noise_enable THEN n
    ELSE IF (n.position + 1) % U16 >= NoisePeriod(n.divisor) THEN NoiseShift(n)
    ELSE [n EXCEPT !.position = (n.position + 1) % U16]

\* the noise contribution to a leg, from the channel as advanced on this tick
NoiseOut(n, leg_enabled) ==
    IF n.noise_enable /\ n.lfsr % 2 = 1 /\ leg_enabled THEN n.volume ELSE 0

\* faulty variant: one sample per byte instead of two
DmaTotalSamples_PerByte(length) ==
    IF length = 0 THEN 4096 ELSE (length * 16) % U16

\* total_samples: uint16_t total_bytes * 2
DmaTotalSamples(length) ==
    LET total_bytes == IF length = 0 THEN 4096 ELSE (length * 16) % U16
    IN  (total_bytes * 2) % U16

\* faulty variant: exhaustion noticed one sample late
DmaExhausted_Late(d) == d.samples_played > DmaTotalSamples(d.length)

DmaExhausted(d) == d.samples_played >= DmaTotalSamples(d.length)

\* the tick emits a nibble
DmaEmits(d) == d.triggered /\ ~DmaExhausted(d)

\* the tick fetches the next byte through Rd6502
DmaFetches(d) == DmaEmits(d) /\ ~d.high_nibble

DmaNibble(d) ==
    IF d.high_nibble THEN (d.current_byte \div 16) % 16 ELSE d.current_byte % 16

DmaAdvance(d, ob) ==
    IF ~d.triggered THEN d
    ELSE IF DmaExhausted(d) THEN [d EXCEPT !.triggered = FALSE]
    ELSE IF d.high_nibble
    THEN [d EXCEPT !.high_nibble = FALSE,
                   !.samples_played = (d.samples_played + 1) % U16]
    ELSE [d EXCEPT !.current_address = (d.current_address + 1) % U16,
                   !.current_byte = RdByte((d.current_address + 1) % U16, ob),
                   !.high_nibble = TRUE,
                   !.samples_played = (d.samples_played + 1) % U16]

\* (int16_t) of a value
Int16(x) == LET m == x % U16 IN IF m >= 32768 THEN m - U16 ELSE m

\* faulty variant: the two legs summed instead of averaged
SampleOf_Summed(cs, n2, d) ==
    IF d.triggered /\ DmaExhausted(d) THEN 0
    ELSE LET left == PulseOut(cs[0]) + PulseOut(cs[1]) + NoiseOut(n2, n2.left_output)
             right == PulseOut(cs[0]) + PulseOut(cs[1]) + NoiseOut(n2, n2.right_output)
             dma == IF DmaEmits(d) THEN DmaNibble(d) ELSE 0
         IN  Int16((dma + left + right) * 256)

\* the returned sample: the early return 0 on exhaustion, else the mix
SampleOf(cs, n2, d) ==
    IF d.triggered /\ DmaExhausted(d) THEN 0
    ELSE LET left == PulseOut(cs[0]) + PulseOut(cs[1]) + NoiseOut(n2, n2.left_output)
             right == PulseOut(cs[0]) + PulseOut(cs[1]) + NoiseOut(n2, n2.right_output)
             dma == IF DmaEmits(d) THEN DmaNibble(d) ELSE 0
         IN  Int16((dma + (left + right) \div 2) * 256)

sound_generate_sample(ob) ==
    /\ channels' = [i \in 0..1 |-> PulseAdvance(channels[i])]
    /\ noise_channel' = NoiseAdvance(noise_channel)
    /\ dma_channel' = DmaAdvance(dma_channel, ob)
    /\ irq_enabled' = IF DmaFetches(dma_channel)
                      THEN RdIrqEnabled((dma_channel.current_address + 1) % U16)
                      ELSE irq_enabled
    /\ ret' = [NoRet EXCEPT !.sample = SampleOf(channels, NoiseAdvance(noise_channel),
                                                dma_channel)]
    /\ dma_run' = IF dma_run.clean /\ dma_channel.triggered
                  THEN [dma_run EXCEPT !.ticks = @ + 1,
                                       !.emitted = IF DmaEmits(dma_channel) THEN @ + 1 ELSE @]
                  ELSE dma_run
    /\ pulse_run' = [i \in 0..1 |->
                        IF pulse_run[i].clean /\ PulseActive(channels[i])
                        THEN [pulse_run[i] EXCEPT !.ticks = @ + 1]
                        ELSE pulse_run[i]]
    /\ op' = Op("sound_generate_sample", 0, 0, 0)
    /\ UNCHANGED <<RAM, VRAM, ROM, rom_size, key_status, irq_timer_counter,
                   nmi_enabled, timer_prescaler, bank, lcd_registers, timer,
                   wr, irq_count>>

(***************************************************************************)
(* sound_wave_write as the execution domain runs it beside the sampling    *)
(* domain: its stores one at a time, in program order, with no lock.       *)
(***************************************************************************)
WaveWriteStore(channel_index, reg_index, value) ==
    /\ wr.pc = "idle"
    /\ WaveIndexValid(channel_index, reg_index)
    /\ channels' = [channels EXCEPT ![channel_index] = WaveStoreReg(@, reg_index, value)]
    /\ wr' = [pc |-> "stored", ch |-> channel_index, reg |-> reg_index, value |-> value]
    /\ pulse_run' = [pulse_run EXCEPT ![channel_index] = NoPulseRun]
    /\ op' = Op("WaveWriteStore", channel_index, reg_index, value)
    /\ ret' = NoRet
    /\ UNCHANGED <<busvars, noise_channel, dma_channel, irq_count, dma_run>>

WaveWriteDerive ==
    /\ wr.pc = "stored"
    /\ channels' = [channels EXCEPT ![wr.ch] =
                        IF wr.reg \in {0, 1} THEN WaveStoreSize(@)
                        ELSE IF wr.reg = 2 THEN WaveStoreControl(@, wr.value)
                        ELSE WaveStoreLength(@, wr.value)]
    /\ wr' = IF wr.reg \in {0, 1} THEN [wr EXCEPT !.pc = "sized"] ELSE NoWrite
    /\ pulse_run' = [pulse_run EXCEPT ![wr.ch] = NoPulseRun]
    /\ op' = Op("WaveWriteDerive", wr.ch, wr.reg, wr.value)
    /\ ret' = NoRet
    /\ UNCHANGED <<busvars, noise_channel, dma_channel, irq_count, dma_run>>

WaveWriteReset ==
    /\ wr.pc = "sized"
    /\ channels' = [channels EXCEPT ![wr.ch] = WaveStorePosition(@)]
    /\ wr' = NoWrite
    /\ pulse_run' = [pulse_run EXCEPT ![wr.ch] = NoPulseRun]
    /\ op' = Op("WaveWriteReset", wr.ch, wr.reg, wr.value)
    /\ ret' = NoRet
    /\ UNCHANGED <<busvars, noise_channel, dma_channel, irq_count, dma_run>>

(***************************************************************************)
(* Initial state: the static initialisers of main.cpp, main's memsets and  *)
(* readfile, and sound_init.                                               *)
(***************************************************************************)
InitWith(size) ==
    /\ RAM = EmptyMem
    /\ VRAM = EmptyMem
    /\ ROM = EmptyMem
    /\ rom_size = size
    /\ key_status = {}
    /\ irq_timer_counter = 0
    /\ irq_enabled = TRUE
    /\ nmi_enabled = TRUE
    /\ timer_prescaler = 256
    /\ bank = 0
    /\ lcd_registers = [i \in 0..3 |-> IF i < 2 THEN 160 ELSE 0]
    /\ timer = 0
    /\ channels = [i \in 0..1 |-> InitChannel]
    /\ noise_channel = InitNoise
    /\ dma_channel = InitDma
    /\ wr = NoWrite
    /\ op = Op("init", 0, 0, 0)
    /\ ret = NoRet
    /\ irq_count = 0
    /\ dma_run = NoRun
    /\ pulse_run = [i \in 0..1 |-> NoPulseRun]

Init == \E size \in RomSizes : InitWith(size)


(***************************************************************************)
(* Specifications.  Each drives the same actions with the inputs of one    *)
(* part of the machine.                                                    *)
(***************************************************************************)
\* the address map: one or two addresses of every range, and of every gap
BusAddrs ==
    {\h1FFF, \h2003, \h2007, \h200E, \h2010, \h201C, \h2028, \h202F, \h2030,
     \h3FFF, \h5FFF, \h6000, \h7FFF, \h8000, \hFFFF}
BusValues == {0, \hA5}

BusRead == \E a \in BusAddrs, ob \in OobBytes : Rd6502(a, ob)
BusWrite == \E a \in BusAddrs, v \in BusValues, lay \in Layouts : Wr6502(a, v, lay)
NextBus == BusRead \/ BusWrite
SpecBus == Init /\ [][NextBus]_vars

\* the IRQ timer with the divide-by-256 prescaler
TimerWrites == {<<\h2023, 0>>, <<\h2023, 1>>, <<\h2023, 2>>,
                <<\h2026, 0>>, <<\h2026, 2>>}
TimerReads == {\h2023, \h2024, \h2027}

TimerRead == \E a \in TimerReads : Rd6502(a, 0)
TimerWrite == \E w \in TimerWrites : Wr6502(w[1], w[2], "elsewhere")
NextTimer == TimerRead \/ TimerWrite \/ Loop6502
SpecTimer == InitWith(32768) /\ [][NextTimer]_vars

\* the pulse channels
PulseWrites ==
    {<<0, 0, 5>>, <<0, 0, 8>>, <<0, 1, 8>>, <<0, 1, 1>>, <<0, 2, \h65>>, <<0, 2, \h25>>,
     <<0, 3, 0>>, <<0, 3, 1>>,
     <<1, 0, 2>>, <<1, 0, 5>>, <<1, 2, \h4F>>, <<1, 3, 0>>}

PulseWrite == \E w \in PulseWrites : sound_wave_write(w[1], w[2], w[3])
SampleTick == \E ob \in OobBytes : sound_generate_sample(ob)
NextPulse == PulseWrite \/ SampleTick
SpecPulse == InitWith(32768) /\ [][NextPulse]_vars

\* the noise channel
NoiseWrites ==
    {<<0, \h0F>>, <<0, \h1A>>, <<1, 0>>, <<1, 2>>,
     <<2, \h10>>, <<2, \h17>>, <<2, \h00>>}

NoiseWrite == \E w \in NoiseWrites : sound_noise_write(w[1], w[2])
NextNoise == NoiseWrite \/ SampleTick
SpecNoise == InitWith(32768) /\ [][NextNoise]_vars

\* the DMA channel
DmaWrites ==
    {<<1, \h20>>, <<2, 0>>, <<2, 1>>, <<4, \h80>>, <<4, \h00>>}

DmaWrite == \E w \in DmaWrites, ob \in OobBytes : sound_dma_write(w[1], w[2], ob, "elsewhere")
NextDma == DmaWrite \/ SampleTick
SpecDma == InitWith(32768) /\ [][NextDma]_vars

\* register writes of the execution domain beside sample ticks
RaceWrites == {<<0, 0, 5>>, <<0, 0, 8>>, <<0, 1, 8>>, <<0, 2, \h65>>, <<0, 3, 1>>}

RaceWriteStore == \E w \in RaceWrites : WaveWriteStore(w[1], w[2], w[3])
NextRace == RaceWriteStore \/ WaveWriteDerive \/ WaveWriteReset \/ SampleTick
SpecRace == InitWith(32768) /\ [][NextRace]_vars

\* the system control register: every byte written to 0x2026
ControlValues == 0..255

ControlWrite == \E v \in ControlValues : Wr6502(\h2026, v, "elsewhere")
NextControl == ControlWrite
SpecControl == InitWith(32768) /\ [][NextControl]_vars

\* register writes with sub-indexes inside and outside the handlers' ranges
IndexWaveWrites ==
    {<<0, 0, 5>>, <<0, 2, \h65>>, <<1, 3, 1>>,
     <<2, 0, 5>>, <<-1, 2, \h65>>, <<0, 4, 5>>, <<1, -1, 5>>}
IndexNoiseWrites == {<<0, \h1A>>, <<2, \h17>>, <<3, \h1A>>, <<-1, \h17>>}
IndexDmaWrites == {<<1, \h20>>, <<2, 1>>, <<5, \hA5>>, <<6, \hA5>>, <<7, 1>>, <<-1, \hA5>>}

IndexWaveWrite == \E w \in IndexWaveWrites : sound_wave_write(w[1], w[2], w[3])
IndexNoiseWrite == \E w \in IndexNoiseWrites : sound_noise_write(w[1], w[2])
IndexDmaWrite ==
    \E w \in IndexDmaWrites, lay \in Layouts : sound_dma_write(w[1], w[2], 0, lay)
NextIndex == IndexWaveWrite \/ IndexNoiseWrite \/ IndexDmaWrite
SpecIndex == InitWith(32768) /\ [][NextIndex]_vars

\* the mixer: one pulse channel, the noise channel in its 7-bit mode and a
\* 16-byte DMA sample in the fixed ROM bank, started from the state that
\* sound_dma_write(2, 1) and sound_dma_write(1, 0xC0) leave
InitMix ==
    /\ RAM = EmptyMem
    /\ VRAM = EmptyMem
    /\ ROM = EmptyMem
    /\ rom_size = 32768
    /\ key_status = {}
    /\ irq_timer_counter = 0
    /\ irq_enabled = TRUE
    /\ nmi_enabled = TRUE
    /\ timer_prescaler = 256
    /\ bank = 0
    /\ lcd_registers = [i \in 0..3 |-> IF i < 2 THEN 160 ELSE 0]
    /\ timer = 0
    /\ channels = [i \in 0..1 |-> InitChannel]
    /\ noise_channel = InitNoise
    /\ dma_channel = DmaWritten(DmaWritten(InitDma, 2, 1, 0), 1, \hC0, 0)
    /\ wr = NoWrite
    /\ op = Op("sound_dma_write", 0, 1, \hC0)
    /\ ret = NoRet
    /\ irq_count = 0
    /\ dma_run = NoRun
    /\ pulse_run = [i \in 0..1 |-> NoPulseRun]

MixWaveWrites == {<<0, 0, 5>>, <<0, 2, \h65>>, <<0, 2, \h25>>}
MixNoiseWrites == {<<0, \h03>>, <<2, \h16>>, <<2, \h06>>}
MixDmaWrites == {<<4, \h80>>, <<4, \h00>>}

MixWaveWrite == \E w \in MixWaveWrites : sound_wave_write(w[1], w[2], w[3])
MixNoiseWrite == \E w \in MixNoiseWrites : sound_noise_write(w[1], w[2])
MixDmaWrite == \E w \in MixDmaWrites : sound_dma_write(w[1], w[2], 0, "elsewhere")
MixTick == sound_generate_sample(0)
NextMix == MixWaveWrite \/ MixNoiseWrite \/ MixDmaWrite \/ MixTick
SpecMix == InitMix /\ [][NextMix]_vars

\* the controller: every set of mapped host keys, and reads of 0x2020
PadKeySets == SUBSET {VK_RIGHT, VK_LEFT, VK_DOWN, VK_UP, VK_X, VK_Z, VK_RETURN, VK_SPACE}

PadInput == \E keys \in PadKeySets : HostKeys(keys)
PadRead == Rd6502(\h2020, 0)
NextPad == PadInput \/ PadRead
SpecPad == InitWith(32768) /\ [][NextPad]_vars

\* bus reads of every branch of Rd6502, between writes that change what the
\* reads could disturb
ReadAddrs ==
    {\h0000, \h2000, \h2020, \h2023, \h2024, \h2025, \h2027, \h2030,
     \h4000, \h7FFF, \h8000, \hC000, \hFFFF}
ReadWrites == {<<\h2026, 2>>, <<\h2026, 0>>, <<\h2023, 7>>, <<\h0000, \hA5>>, <<\h2000, 9>>}

ReadRead == \E a \in ReadAddrs, ob \in OobBytes : Rd6502(a, ob)
ReadWrite == \E w \in ReadWrites : Wr6502(w[1], w[2], "elsewhere")
NextRead == ReadRead \/ ReadWrite
SpecRead == Init /\ [][NextRead]_vars

\* the period registers of pulse channel 0: started from the state that
\* sound_wave_write(0, 0, lo) and sound_wave_write(0, 1, hi) leave, for every
\* 11-bit period; the same bytes are then written again between sample ticks
InitPeriod ==
    \E lo \in 0..255, hi \in 0..7 :
        /\ RAM = EmptyMem
        /\ VRAM = EmptyMem
        /\ ROM = EmptyMem
        /\ rom_size = 32768
        /\ key_status = {}
        /\ irq_timer_counter = 0
        /\ irq_enabled = TRUE
        /\ nmi_enabled = TRUE
        /\ timer_prescaler = 256
        /\ bank = 0
        /\ lcd_registers = [i \in 0..3 |-> IF i < 2 THEN 160 ELSE 0]
        /\ timer = 0
        /\ channels = [i \in 0..1 |-> IF i = 0
                                      THEN WaveWritten(WaveWritten(InitChannel, 0, lo), 1, hi)
                                      ELSE InitChannel]
        /\ noise_channel = InitNoise
        /\ dma_channel = InitDma
        /\ wr = NoWrite
        /\ op = Op("sound_wave_write", 0, 1, hi)
        /\ ret = NoRet
        /\ irq_count = 0
        /\ dma_run = NoRun
        /\ pulse_run = [i \in 0..1 |-> NoPulseRun]

PeriodRewrite == \E r \in 0..1 : sound_wave_write(0, r, channels[0].reg[r])
PeriodEnable == sound_wave_write(0, 2, \h65)
PeriodTick == sound_generate_sample(0)
NextPeriod == PeriodRewrite \/ PeriodEnable \/ PeriodTick
SpecPeriod == InitPeriod /\ [][NextPeriod]_vars

\* the LCD registers and their mirror
LcdAddrs == \h2000 .. \h2007
LcdValues == {0, \h5A, \hA5}

LcdRead == \E a \in LcdAddrs : Rd6502(a, 0)
LcdWrite == \E a \in LcdAddrs, v \in LcdValues : Wr6502(a, v, "elsewhere")
NextLcd == LcdRead \/ LcdWrite
SpecLcd == InitWith(32768) /\ [][NextLcd]_vars

\* the IRQ timer with the divide-by-16384 prescaler selected through 0x2026
PrescaleWrites == {<<\h2026, 1>>, <<\h2026, 3>>, <<\h2026, 0>>, <<\h2023, 1>>, <<\h2023, 2>>}

PrescaleWrite == \E w \in PrescaleWrites : Wr6502(w[1], w[2], "elsewhere")
NextPrescale == PrescaleWrite \/ Loop6502
SpecPrescale == InitWith(32768) /\ [][NextPrescale]_vars

\* the noise frequency and volume register: every byte written to register 0
FreqValues == 0..255

FreqWrite == \E v \in FreqValues : sound_noise_write(0, v)
NextFreq == FreqWrite
SpecFreq == InitWith(32768) /\ [][NextFreq]_vars

\* the length countdown of the pulse channels: periods 100 (size 35) and 5
\* (size 2) on channel 0, period 2 (size 1) on channel 1
LengthWrites ==
    {<<0, 0, 100>>, <<0, 0, 5>>, <<0, 2, \h65>>, <<0, 3, 0>>, <<0, 3, 2>>,
     <<1, 0, 2>>, <<1, 2, \h4F>>, <<1, 3, 1>>}

LengthWrite == \E w \in LengthWrites : sound_wave_write(w[1], w[2], w[3])
LengthTick == sound_generate_sample(0)
NextLength == LengthWrite \/ LengthTick
SpecLength == InitWith(32768) /\ [][NextLength]_vars

\* the loudest mix: both pulse channels (period 5, size 2) and the noise
\* channel at volume 15 beside a 16-byte DMA sample in the fixed ROM bank,
\* started from the state that the period writes, sound_noise_write(0, 0x0F),
\* sound_dma_write(2, 1) and sound_dma_write(1, 0xC0) leave
InitLevel ==
    /\ RAM = EmptyMem
    /\ VRAM = EmptyMem
    /\ ROM = EmptyMem
    /\ rom_size = 32768
    /\ key_status = {}
    /\ irq_timer_counter = 0
    /\ irq_enabled = TRUE
    /\ nmi_enabled = TRUE
    /\ timer_prescaler = 256
    /\ bank = 0
    /\ lcd_registers = [i \in 0..3 |-> IF i < 2 THEN 160 ELSE 0]
    /\ timer = 0
    /\ channels = [i \in 0..1 |-> WaveWritten(InitChannel, 0, 5)]
    /\ noise_channel = NoiseWritten(InitNoise, 0, \h0F)
    /\ dma_channel = DmaWritten(DmaWritten(InitDma, 2, 1, 0), 1, \hC0, 0)
    /\ wr = NoWrite
    /\ op = Op("sound_dma_write", 0, 1, \hC0)
    /\ ret = NoRet
    /\ irq_count = 0
    /\ dma_run = NoRun
    /\ pulse_run = [i \in 0..1 |-> NoPulseRun]

LevelWaveWrites == {<<0, 2, \h6F>>, <<1, 2, \h6F>>}
LevelNoiseWrites == {<<2, \h16>>}
LevelDmaWrites == {<<4, \h80>>}

LevelWaveWrite == \E w \in LevelWaveWrites : sound_wave_write(w[1], w[2], w[3])
LevelNoiseWrite == \E w \in LevelNoiseWrites : sound_noise_write(w[1], w[2])
LevelDmaWrite == \E w \in LevelDmaWrites : sound_dma_write(w[1], w[2], 0, "elsewhere")
LevelTick == sound_generate_sample(0)
NextLevel == LevelWaveWrite \/ LevelNoiseWrite \/ LevelDmaWrite \/ LevelTick
SpecLevel == InitLevel /\ [][NextLevel]_vars

\* the whole machine
KeySets == SUBSET {VK_RETURN, VK_SPACE, VK_Z}
HostInput == \E keys \in KeySets : HostKeys(keys)
Next == NextBus \/ NextTimer \/ HostInput \/ NextPulse \/ NextNoise \/ NextDma
Spec == Init /\ [][Next]_vars


(***************************************************************************)
(* Properties                                                              *)
(***************************************************************************)
PulseNoiseRegs ==
    {channels[i].reg[r] : i \in 0..1, r \in 0..3} \cup {noise_channel.reg[r] : r \in 0..2}
DmaRegs == {dma_channel.reg[r] : r \in 0..4}

\* C1: after a bus write to 0x2010-0x201C the written value is held by a raw
\* register of the pulse/noise channels, and after a bus write to
\* 0x2028-0x202F by a raw register of the DMA channel.
C1_SoundWritesForwarded ==
    op.name = "Wr6502" =>
        /\ (op.addr >= \h2010 /\ op.addr <= \h201C) => op.value \in PulseNoiseRegs
        /\ (op.addr >= \h2028 /\ op.addr <= \h202F) => op.value \in DmaRegs

\* C2: a sample tick never runs while a register write is partially applied
\* (raw register stored but size stale, or size stored but position not yet
\* reset).
C2_NoTornWrite ==
    op.name = "sound_generate_sample" => wr.pc = "idle"

\* C3: no timer tick changes the countdown from 0 to 255: once at 0 it stays
\* at 0 until 0x2023 is written.
C3_CountdownStaysZero ==
    [][op'.name = "Loop6502" => ~(irq_timer_counter = 0 /\ irq_timer_counter' = 255)]_vars

\* C4: between two writes of 0x2023 the CPU is signalled IRQ at most once.
C4_IrqOncePerExpiry == irq_count <= 1

\* C5: a write of 0 to 0x2023 signals IRQ inside the write exactly when
\* irq_enabled is true.
C5_ZeroWriteIrqSync ==
    (op.name = "Wr6502" /\ op.addr = \h2023 /\ op.value = 0)
        => ((ret.int = "INT_IRQ") <=> irq_enabled)

C5_Witness ==
    /\ op.name = "Wr6502" /\ op.addr = \h2023 /\ op.value = 0
    /\ irq_enabled /\ ret.int = "INT_IRQ"

\* C6: for both pulse channels position < size whenever size > 0.
C6_PositionBelowSize ==
    \A i \in 0..1 : channels[i].size > 0 => channels[i].position < channels[i].size

C6_Witness ==
    /\ op.name = "sound_generate_sample"
    /\ channels[0].size > 1
    /\ channels[0].position = channels[0].size - 1

\* C7: the noise LFSR is never 0.
C7_LfsrNeverZero == noise_channel.lfsr # 0

C7_Witness ==
    /\ op.name = "sound_generate_sample"
    /\ ~noise_channel.lfsr_mode
    /\ noise_channel.lfsr = \h40

\* C8: once a (non-zero) control write has selected the 7-bit mode, the LFSR
\* is non-zero and fits within 7 bits, right after the write and after every
\* advance.
C8_SevenBitFits ==
    (noise_channel.reg[2] # 0 /\ ~noise_channel.lfsr_mode)
        => (noise_channel.lfsr # 0 /\ noise_channel.lfsr <= \h7F)

\* C9: after a trigger write (bit 7) found samples_played = 0 and with no DMA
\* register write since, every tick emits one nibble-sample until exactly
\* 2 * (length = 0 ? 4096 : length * 16) are out, and the tick after the last
\* one clears triggered.
C9_Total == 2 * (IF dma_channel.length = 0 THEN 4096 ELSE dma_channel.length * 16)

C9_DmaPlaysExactly ==
    dma_run.clean =>
        IF dma_channel.triggered
        THEN /\ dma_run.ticks = dma_run.emitted
             /\ dma_run.emitted <= C9_Total
             /\ dma_channel.samples_played = dma_run.emitted
        ELSE /\ dma_run.emitted = C9_Total
             /\ dma_run.ticks = C9_Total + 1

C9_Witness ==
    /\ dma_run.clean /\ ~dma_channel.triggered
    /\ dma_channel.length = 0 /\ dma_run.emitted = 8192

\* C10: at an address of no range of the address map a bus read returns 0xFF
\* and a bus write leaves memory, LCD, timer and sound state unchanged.
Unmapped(a) ==
    \/ a >= \h200E /\ a <= \h200F
    \/ a >= \h201D /\ a <= \h201F
    \/ a >= \h2030 /\ a <= \h3FFF
    \/ a >= \h6000 /\ a <= \h7FFF

C10_UnmappedInert ==
    /\ [](op.name = "Rd6502" /\ Unmapped(op.addr) => ret.byte = 255)
    /\ [][op'.name = "Wr6502" /\ Unmapped(op'.addr)
            => UNCHANGED <<memvars, key_status, timervars, soundvars>>]_vars

\* C11: after a write of v to 0x2026 the decode follows the layout BBBS D?IN:
\* bank = (v >> 5) * 16384 for all eight bank codes, nmi_enabled = bit 0,
\* irq_enabled = bit 1, and the prescaler is 16384 if bit 4 (S) is set and
\* 256 otherwise.
C11_ControlDecode ==
    (op.name = "Wr6502" /\ op.addr = \h2026) =>
        /\ bank = (op.value \div 32) * 16384
        /\ nmi_enabled = (Bit(op.value, 0) = 1)
        /\ irq_enabled = (Bit(op.value, 1) = 1)
        /\ timer_prescaler = IF Bit(op.value, 4) = 1 THEN 16384 ELSE 256

\* C12: a sound register write with a sub-index outside its range (pulse
\* channel outside 0..1, pulse register outside 0..3, noise register outside
\* 0..2, DMA register outside 0..4) changes no field of any channel and no
\* other state.
MalformedWrite(o) ==
    \/ o.name = "sound_wave_write" /\ (o.addr \notin 0..1 \/ o.reg \notin 0..3)
    \/ o.name = "sound_noise_write" /\ o.reg \notin 0..2
    \/ o.name = "sound_dma_write" /\ o.reg \notin 0..4

C12_MalformedIgnored ==
    [][MalformedWrite(op') => UNCHANGED <<busvars, soundvars>>]_vars

\* C13: on every sample tick the returned sample is
\* (dma + (left + right) / 2) << 8, where left and right are the pulse and
\* noise contributions of the tick and dma is the nibble emitted, or 0 when
\* the DMA channel is untriggered or found exhausted on this tick: the pulse
\* and noise contributions are in the output on the exhaustion tick too.
C13_Left ==
    PulseOut(channels[0]) + PulseOut(channels[1])
        + NoiseOut(noise_channel', noise_channel'.left_output)
C13_Right ==
    PulseOut(channels[0]) + PulseOut(channels[1])
        + NoiseOut(noise_channel', noise_channel'.right_output)
C13_Dma == IF DmaEmits(dma_channel) THEN DmaNibble(dma_channel) ELSE 0

C13_MixFormula ==
    [][op'.name = "sound_generate_sample"
            => ret'.sample = (C13_Dma + (C13_Left + C13_Right) \div 2) * 256]_vars

\* C14: a read of 0x2020 returns a byte whose button bits are active-low:
\* a bit is 0 exactly when a host key mapped to its button is pressed; bit 7
\* is 0 whenever Start (Return), Select (Space) or both are pressed, bit 6
\* has no key, and 0xFF is returned when nothing is pressed.
C14_Pressed(bit) ==
    IF bit = 0 THEN VK_RIGHT \in key_status
    ELSE IF bit = 1 THEN VK_LEFT \in key_status
    ELSE IF bit = 2 THEN VK_DOWN \in key_status
    ELSE IF bit = 3 THEN VK_UP \in key_status
    ELSE IF bit = 4 THEN VK_X \in key_status
    ELSE IF bit = 5 THEN VK_Z \in key_status
    ELSE IF bit = 7 THEN VK_RETURN \in key_status \/ VK_SPACE \in key_status
    ELSE FALSE

C14_ActiveLow ==
    (op.name = "Rd6502" /\ op.addr = \h2020) =>
        \A bit \in 0..7 : (Bit(ret.byte, bit) = 0) <=> C14_Pressed(bit)

C16_Size(p) == (441 * ((p + 1) * 32)) \div 40000

C16_PeriodWrite(o) == o.name = "sound_wave_write" /\ o.reg \in {0, 1}

C16_PeriodSize ==
    /\ [](C16_PeriodWrite(op) =>
            /\ channels[op.addr].size = C16_Size(PeriodValue(channels[op.addr].reg))
            /\ channels[op.addr].position = 0)
    /\ [][(C16_PeriodWrite(op') /\ channels'[0].reg = channels[0].reg) =>
            /\ channels'[0].size = channels[0].size
            /\ channels'[0].position = 0]_vars

C16_Witness ==
    /\ C16_PeriodWrite(op) /\ op.reg = 0
    /\ PeriodValue(channels[0].reg) = 100
    /\ channels[0].enabled
    /\ channels[0].size = 35 /\ channels[0].position = 0

\* C17: on a sample tick a disabled channel (pulse enabled = false, noise
\* noise_enable = false, DMA triggered = false) contributes 0 to the output
\* whatever its position, length, lfsr, size or samples_played: the sample is
\* the one the tick returns with every disabled channel in its reset state.
C17_Pulse(c) == IF c.enabled THEN c ELSE InitChannel
C17_Noise(n) == IF n.noise_enable THEN n ELSE InitNoise
C17_Dma(d) == IF d.triggered THEN d ELSE InitDma

C17_DisabledSilent ==
    [][op'.name = "sound_generate_sample" =>
        ret'.sample = SampleOf([i \in 0..1 |-> C17_Pulse(channels[i])],
                               NoiseAdvance(C17_Noise(noise_channel)),
                               C17_Dma(dma_channel))]_vars

C17_Witness ==
    /\ op.name = "sound_generate_sample" /\ ret.sample = 0
    /\ ~channels[0].enabled /\ channels[0].volume > 0 /\ channels[0].size > 0
    /\ channels[0].position < DutyThreshold(channels[0])
    /\ ~noise_channel.noise_enable /\ noise_channel.volume > 0
    /\ noise_channel.lfsr % 2 = 1 /\ noise_channel.left_output
    /\ ~dma_channel.triggered /\ dma_channel.samples_played \in 1..31
    /\ DmaNibble(dma_channel) > 0

\* C18: a bus read of an address a in 0x2000..0x2007 returns the value most
\* recently written to any address b in 0x2000..0x2007 with b & 3 = a & 3:
\* a write to b puts its value in the register of class b & 3, nothing but a
\* write to that class changes the register, and a read of a returns the
\* register of class a & 3.
C18_Lcd(o, name) == o.name = name /\ o.addr >= \h2000 /\ o.addr <= \h2007

C18_LcdMirror ==
    /\ [](C18_Lcd(op, "Wr6502") => lcd_registers[op.addr % 4] = op.value)
    /\ [](C18_Lcd(op, "Rd6502") => ret.byte = lcd_registers[op.addr % 4])
    /\ [][\A k \in 0..3 :
            lcd_registers'[k] # lcd_registers[k]
                => (C18_Lcd(op', "Wr6502") /\ op'.addr % 4 = k)]_vars

C18_Witness ==
    /\ C18_Lcd(op, "Rd6502") /\ op.addr = \h2006
    /\ ret.byte = \hA5
    /\ lcd_registers[2] = \hA5 /\ lcd_registers[0] = \h5A
    /\ lcd_registers[1] = 160 /\ lcd_registers[3] = 0

\* C19: a write to 0x2023 reloads the countdown and restarts the prescaler:
\* the sub-cycle accumulator starts again from 0 and the divide-by-256 or
\* divide-by-16384 selection made through 0x2026 stays in effect (so that
\* with 16384 selected the countdown next decrements 64 timer ticks after
\* the write).
C19_ReloadRestarts ==
    [][(op'.name = "Wr6502" /\ op'.addr = \h2023) =>
        /\ irq_timer_counter' = op'.value
        /\ timer' = 0
        /\ timer_prescaler' = timer_prescaler]_vars

\* C20: after a write of frequency code f to noise register 0 the divisor is
\* the f-th entry of the 16-entry table (8, 32, ..., 65536, 131072, 65536,
\* 131072) and the period a tick derives from it is
\* max(1, floor(44100 * table[f] / 4000000)): 722 for codes 12 and 14, 1445
\* for codes 13 and 15.
C20_Period(f) ==
    LET p == (441 * NoiseDivisors[f + 1]) \div 40000 IN IF p < 1 THEN 1 ELSE p

C20_NoisePeriod ==
    (op.name = "sound_noise_write" /\ op.reg = 0) =>
        /\ noise_channel.divisor = NoiseDivisors[(op.value \div 16) + 1]
        /\ NoisePeriod(noise_channel.divisor) = C20_Period(op.value \div 16)

\* C21: across DMA register writes and sample ticks samples_played never
\* decreases and never exceeds 8192; once a playback is exhausted
\* (samples_played has reached the total of the current length), a step that
\* leaves length unchanged, a trigger write with bit 7 set included, restarts
\* nothing and emits no further nibble-sample.
C21_Exhausted == dma_channel.samples_played >= C9_Total

C22_Countdown(i) ==
    LET r == pulse_run[i]
        c == channels[i]
    IN  r.clean =>
            /\ c.size = r.size
            /\ IF c.enabled
               THEN /\ r.ticks < r.length * r.size
                    /\ c.position = r.ticks % r.size
                    /\ c.length = r.length - (r.ticks \div r.size)
               ELSE /\ r.ticks = r.length * r.size
                    /\ c.position = 0
                    /\ c.length = 0

C22_LengthCountdown == \A i \in 0..1 : C22_Countdown(i)

\* period 100 and control byte 0x65: 35 ticks have decremented length by one
C22_Witness ==
    /\ op.name = "sound_generate_sample"
    /\ pulse_run[0].clean /\ pulse_run[0].size = 35 /\ pulse_run[0].length = 3
    /\ pulse_run[0].ticks = 35
    /\ channels[0].reg[2] = \h65
    /\ channels[0].length = 2 /\ channels[0].position = 0 /\ channels[0].enabled

\* C23: a bus read or write indexes the RAM, VRAM, LCD-register and ROM
\* buffers only within their bounds: RAM and VRAM offsets in 0..8191, LCD
\* index in 0..3, ROM offset below the size of the ROM buffer.
C23_InBounds(idx, size) == idx >= 0 /\ idx < size

C23_ReadInBounds(a) ==
    IF a <= \h1FFF THEN C23_InBounds(a, RAM_SIZE)
    ELSE IF a \in {\h2023, \h2024, \h2025, \h2027, \h2020} THEN TRUE
    ELSE IF a >= \h2000 /\ a <= \h2007 THEN C23_InBounds(LcdIndex(a), 4)
    ELSE IF a >= \hC000 THEN C23_InBounds(HiRomIndex(a), ROM_SIZE)
    ELSE IF a >= \h8000 THEN C23_InBounds(LoRomIndex(a), ROM_SIZE)
    ELSE IF a >= \h4000 THEN C23_InBounds(a - \h4000, VRAM_SIZE)
    ELSE TRUE

C23_WriteInBounds(a) ==
    IF a <= \h1FFF THEN C23_InBounds(a, RAM_SIZE)
    ELSE IF a >= \h2000 /\ a <= \h2007 THEN C23_InBounds(LcdIndex(a), 4)
    ELSE IF a >= \h4000 THEN C23_InBounds(a - \h4000, VRAM_SIZE)
    ELSE TRUE

C23_AccessInBounds ==
    /\ op.name = "Rd6502" => C23_ReadInBounds(op.addr)
    /\ op.name = "Wr6502" => C23_WriteInBounds(op.addr)

\* C24: the value a sample tick returns is a multiple of 256 in 0..15360
\* (mixed level at most 60: three 4-bit volumes on each leg, averaged, plus
\* one DMA nibble), so the << 8 scaling never wraps the signed 16-bit output.
C24_SampleRange ==
    op.name = "sound_generate_sample" =>
        /\ ret.sample % 256 = 0
        /\ ret.sample >= 0 /\ ret.sample <= 15360

C24_Witness ==
    /\ op.name = "sound_generate_sample"
    /\ ret.sample = 15360

=============================================================================
